---- MODULE Spec2Model ----
(***************************************************************************)
(* Model of src/com/facebook/buck/python/pex.py: the symlink resolver      *)
(* dereference_symlinks and the orchestration in main().                   *)
(***************************************************************************)
EXTENDS Naturals, Integers, Sequences, FiniteSets, TLC

\* ------------------------------------------------------------------------
\* Bounds
\* ------------------------------------------------------------------------
\* Longest path (in components) the loop of resolve is followed to.
MaxPath == 7
\* Saturation value of the link-replacement counter.
MaxSteps == 5
\* Largest number of entries (modules plus resources) in a manifest.
MaxEntries == 2

\* ------------------------------------------------------------------------
\* Paths: a path string is a flag "starts with /" and its components.
\* ------------------------------------------------------------------------
Rel(c) == [abs |-> FALSE, c |-> c]
Abs(c) == [abs |-> TRUE, c |-> c]
NoPath == Rel(<<>>)

\* ------------------------------------------------------------------------
\* The filesystem: a map from a physical location (names from the root) to
\* a node.  The working directory is the root.
\* ------------------------------------------------------------------------
None == [k |-> "none", t |-> NoPath]
File == [k |-> "file", t |-> NoPath]
Dir == [k |-> "dir", t |-> NoPath]
Link(t) == [k |-> "link", t |-> t]

VARIABLES fs, tmpDirs, run

vars == <<fs, tmpDirs, run>>

Root == <<>>
Fail == <<"!">>

NodeAt(loc) ==
  IF loc = Root THEN Dir
  ELSE IF loc \in DOMAIN fs THEN fs[loc] ELSE None

Parent(loc) == IF Len(loc) = 0 THEN loc ELSE SubSeq(loc, 1, Len(loc) - 1)

\* Kernel path walk without following a final symlink (lstat): the location
\* the path names, or Fail (ENOENT, ENOTDIR, ELOOP).
RECURSIVE Walk(_, _, _)
Walk(dir, comps, hops) ==
  IF Len(comps) = 0 THEN dir
  ELSE
    LET c == Head(comps)
        rest == Tail(comps)
    IN IF c = ".." THEN Walk(Parent(dir), rest, hops)
       ELSE
         LET loc == Append(dir, c)
             n == NodeAt(loc)
         IN IF Len(rest) = 0 THEN loc
            ELSE IF n.k = "dir" THEN Walk(loc, rest, hops)
            ELSE IF n.k = "link" THEN
              IF hops = 0 THEN Fail
              ELSE Walk(IF n.t.abs THEN Root ELSE dir, n.t.c \o rest, hops - 1)
            ELSE Fail

\* A string the interpreter hands to the system call: one it cannot encode
\* for it (a NUL character, a character outside the filesystem encoding, a
\* value that is no string) makes os.path.islink raise instead.
Unencodable == "\\0"
Encodable(p) == \A i \in 1..Len(p.c) : p.c[i] # Unencodable

\* A file name holding a byte the interpreter cannot decode (0xff, or any
\* byte above 0x7f under an ASCII filesystem encoding).  No string of the
\* manifest names it; a link target may.
Undecodable == "\\xff"
Decodable(t) == \A i \in 1..Len(t.c) : t.c[i] # Undecodable

\* Limits of the kernel: a path of PATH_MAX bytes or more, the closing NUL
\* counted, is refused (ENAMETOOLONG), and so is a lookup that follows more
\* than SYMLOOP_MAX links (ELOOP).
PATH_MAX == 4096
SYMLOOP_MAX == 40

\* Bytes of a path string: its names, the separators between them and a
\* leading slash.
RECURSIVE NameBytes(_)
NameBytes(comps) ==
  IF Len(comps) = 0 THEN 0
  ELSE (IF Head(comps) \in {Unencodable, Undecodable} THEN 1
        ELSE Len(Head(comps))) + NameBytes(Tail(comps))
ByteLen(p) ==
  (IF p.abs THEN 1 ELSE 0) + NameBytes(p.c)
  + (IF Len(p.c) > 0 THEN Len(p.c) - 1 ELSE 0)

\* os.lstat
Lstat(p) ==
  IF ByteLen(p) >= PATH_MAX THEN Fail ELSE Walk(Root, p.c, SYMLOOP_MAX)

\* os.path.islink of an encodable string: lstat errors count as "not a link"
islink(p) == Lstat(p) # Fail /\ NodeAt(Lstat(p)).k = "link"

\* os.readlink
readlink(p) == NodeAt(Lstat(p)).t

\* The directory with its own links resolved: the place it names.
dirname_real(p) ==
  IF Len(p.c) <= 1 THEN [abs |-> p.abs, c |-> <<>>]
  ELSE [abs |-> TRUE, c |-> Parent(Walk(Root, p.c, SYMLOOP_MAX))]

\* os.path.dirname
dirname(p) ==
  IF Len(p.c) = 0 THEN p
  ELSE [abs |-> p.abs, c |-> SubSeq(p.c, 1, Len(p.c) - 1)]

\* os.path.join(d, t): an absolute t replaces d, no normalisation is done
join(d, t) ==
  IF t.abs THEN t ELSE [abs |-> d.abs, c |-> d.c \o t.c]

\* The path of the loop is a unicode string as long as uni holds: json.load
\* delivers the source as one.  os.readlink of a unicode path decodes the
\* target and hands back the byte string when it cannot; of a byte string
\* it gives a byte string.
ReadsUnicode(uni, t) == uni /\ Decodable(t)
\* os.path.join concatenates a relative target to the directory: a unicode
\* directory and a byte string that cannot be decoded raise
\* UnicodeDecodeError.  An absolute target is taken as it is.
JoinRaises(uni, t) == uni /\ ~ Decodable(t) /\ ~ t.abs

\* ------------------------------------------------------------------------
\* Inputs
\* ------------------------------------------------------------------------
Procs == {1, 2}
TmpNames == {"t1", "t2", "t3"}
\* The --entry-point option of the command line: absent, or given with a
\* value, which may be the empty string.
NoOption == [given |-> FALSE, value |-> ""]
Opt(v) == [given |-> TRUE, value |-> v]
EntryPoints == {NoOption, Opt("app.run"), Opt("")}
\* What optparse does with the options of the command line besides
\* --entry-point: nothing, it acts on --help (-h), or it refuses one (an
\* unknown option, an option without its value) before it meets --help.
OptFlags == {"none", "help", "bad"}

\* Destination paths of manifest entries (relative POSIX paths).
Dsts == {Rel(<<"m">>), Rel(<<"..", "x">>)}
\* Source paths of manifest entries.
Srcs ==
  {Rel(<<"a">>), Rel(<<"s", "a">>), Rel(<<"d", "f">>), Rel(<<"nx">>),
   Rel(<<Unencodable>>)}

\* The filesystem shapes: d is a directory holding the file f, s is a
\* symbolic link to d, a, d/a, d/b are absent, files or links, and d may
\* hold an entry whose name cannot be decoded.
Locs ==
  {<<"d">>, <<"s">>, <<"d", "f">>, <<"a">>, <<"d", "a">>, <<"d", "b">>,
   <<"d", Undecodable>>}
MkFs(na, nda, ndb, ndx) ==
  [loc \in Locs |->
     IF loc = <<"d">> THEN Dir
     ELSE IF loc = <<"s">> THEN Link(Rel(<<"d">>))
     ELSE IF loc = <<"d", "f">> THEN File
     ELSE IF loc = <<"a">> THEN na
     ELSE IF loc = <<"d", "a">> THEN nda
     ELSE IF loc = <<"d", "b">> THEN ndb
     ELSE ndx]

\* a -> d/a -> b -> f: a chain of three links ending at the file d/f
FsChain ==
  MkFs(Link(Rel(<<"d", "a">>)), Link(Rel(<<"b">>)), Link(Rel(<<"f">>)), None)
\* a -> a: a link to itself;  d/a -> b -> ../d/a: a cycle of two links
FsCycle ==
  MkFs(Link(Rel(<<"a">>)), Link(Rel(<<"b">>)), Link(Rel(<<"..", "d", "a">>)),
       None)
\* a -> /d/b -> ../nx: an absolute target and a dangling end; d/a a file
FsDangling ==
  MkFs(Link(Abs(<<"d", "b">>)), File, Link(Rel(<<"..", "nx">>)), None)
\* a -> d/<0xff>, a relative target that cannot be decoded, and
\* d/a -> /d/<0xff>, an absolute one; d/<0xff> is a file
FsBytes ==
  MkFs(Link(Rel(<<"d", Undecodable>>)), Link(Abs(<<"d", Undecodable>>)), None,
       File)
Layouts == {FsChain, FsCycle, FsDangling, FsBytes}

Targets ==
  {Rel(<<"a">>), Rel(<<"b">>), Rel(<<"f">>), Rel(<<"nx">>), Rel(<<"..", "a">>),
   Rel(<<"d", "a">>), Rel(<<"..", "d", "a">>), Abs(<<"d", "b">>), Abs(<<"a">>),
   Rel(<<Undecodable>>), Abs(<<"d", Undecodable>>)}
NodeChoices == {None, File} \cup {Link(t) : t \in Targets}
\* What the entry with the undecodable name is when it is no file, and
\* the links that lead to it.
ByteNodeChoices == {None, Link(Rel(<<Undecodable>>)), Link(Rel(<<"f">>))}
ByteLinks ==
  {None, Link(Rel(<<Undecodable>>)), Link(Abs(<<"d", Undecodable>>))}
AllLayouts ==
  {MkFs(x, y, z, File) :
     x \in NodeChoices, y \in NodeChoices, z \in NodeChoices}
  \cup
  {MkFs(x, y, z, w) :
     x \in ByteLinks, y \in ByteLinks, z \in ByteLinks, w \in ByteNodeChoices}
AllSrcs ==
  Srcs \cup {Rel(<<"d", "a">>), Rel(<<"d", "b">>), Abs(<<"d", "a">>),
             Rel(<<"s", "b">>), Rel(<<"d", "..", "a">>), Rel(<<"nx", "a">>)}

Entries == [dst : Dsts, src : Srcs]
UniqueDst(S) == \A e1 \in S : \A e2 \in S : e1.dst = e2.dst => e1 = e2
RECURSIVE UpTo(_)
UpTo(k) ==
  IF k = 0 THEN {{}}
  ELSE LET C == UpTo(k - 1)
       IN C \cup {S \cup {e} : <<S, e>> \in
                   {x \in C \X Entries : UniqueDst(x[1] \cup {x[2]})}}
Collections == UpTo(MaxEntries)
Manifests ==
  {m \in [modules : Collections, resources : Collections] :
     Cardinality(m.modules) + Cardinality(m.resources) <= MaxEntries}
EmptyManifest == [modules |-> {}, resources |-> {}]
\* Standard input: a manifest document, or text that is not a document.
Invalid == [modules |-> {[dst |-> NoPath, src |-> NoPath]}, resources |-> {}]
\* Documents that parse but are no manifest: one without an object under
\* 'modules' (as '{}', '[]' or '{"modules": []}'), and those with modules
\* but without an object under 'resources'.
Shapeless == {[resources |-> {}]} \cup {[modules |-> M] : M \in Collections}
Stdins == Manifests \cup {Invalid} \cup Shapeless

\* manifest[key] when it is there as an object
HasMember(m, key) == key \in DOMAIN m
Modules(m) == IF HasMember(m, "modules") THEN m.modules ELSE {}
Resources(m) == IF HasMember(m, "resources") THEN m.resources ELSE {}

NoEntry == [dst |-> NoPath, src |-> NoPath, path |-> NoPath]
NoInfo == [zip_safe |-> FALSE, entry_point |-> "None"]

\* ------------------------------------------------------------------------
\* One invocation of the script
\* ------------------------------------------------------------------------
NewRun(n, ep, in) ==
  [pc |-> "start", nargs |-> n, flag |-> "none", entry_point |-> ep,
   stdin |-> in, options |-> [entry_point |-> "None"],
   read |-> FALSE, manifest |-> EmptyManifest, tmp |-> "none",
   interpTries |-> 0, builder |-> FALSE, info |-> NoInfo,
   iter |-> "none", todo |-> {}, cat |-> "none", cur |-> NoEntry,
   unicode |-> TRUE, steps |-> 0,
   registered |-> {}, log |-> <<>>, buildCalls |-> 0, output |-> FALSE,
   rmTried |-> FALSE, rmOk |-> FALSE, err |-> "none", status |-> -1]
Off == [NewRun(1, NoOption, EmptyManifest) EXCEPT !.pc = "off"]

Set(p, r) == run' = [run EXCEPT ![p] = r]

\* Only the exit of optparse is reported.
ExitStatus_lost(err) == IF err = "usage" THEN 2 ELSE 0

\* The status sys.exit reports: main returned None or optparse printed the
\* help (0), optparse reported an error (2), or an exception reached the top
\* level (1).
ExitStatus(err) ==
  IF err \in {"none", "help"} THEN 0 ELSE IF err = "usage" THEN 2 ELSE 1

\* An exception raised before the try block ends the process at once.
Die(r, e) == [r EXCEPT !.pc = "exit", !.err = e, !.status = ExitStatus(e)]

\* No finally clause: the exception ends the process at once.
Raise_nofinally(r, e) == Die(r, e)

\* An exception raised inside the try block: control moves to the finally
\* clause and the exception stays pending.
Raise(r, e) == [r EXCEPT !.pc = "finally", !.err = e]

\* parser.add_option('--entry-point', default='__main__'); parse_args()
ParseOptions(ep) ==
  [entry_point |-> IF ep.given THEN ep.value ELSE "__main__"]

\* parser.error does not end the process.
ParseArgs_noexit(p) ==
  /\ run[p].pc = "start"
  /\ Set(p, [run[p] EXCEPT !.pc = "load",
                           !.options = ParseOptions(run[p].entry_point)])
  /\ UNCHANGED <<fs, tmpDirs>>

\* parse_args ends the process itself on --help (status 0) and on a command
\* line it refuses (parser.error); then: exactly one positional argument,
\* else parser.error
ParseArgs(p) ==
  /\ run[p].pc = "start"
  /\ LET r == [run[p] EXCEPT !.options = ParseOptions(run[p].entry_point)]
     IN Set(p, IF run[p].flag = "help" THEN Die(run[p], "help")
               ELSE IF run[p].flag = "bad" THEN Die(run[p], "usage")
               ELSE IF run[p].nargs = 1 THEN [r EXCEPT !.pc = "load"]
               ELSE Die(r, "usage"))
  /\ UNCHANGED <<fs, tmpDirs>>

\* The scratch directory is made before the manifest is parsed.
LoadManifest_late(p) ==
  /\ run[p].pc = "load"
  /\ \E name \in TmpNames \ tmpDirs :
       /\ tmpDirs' = tmpDirs \cup {name}
       /\ Set(p, IF run[p].stdin = Invalid
                 THEN Die([run[p] EXCEPT !.read = TRUE, !.tmp = name], "manifest")
                 ELSE [run[p] EXCEPT !.pc = "interp", !.read = TRUE, !.tmp = name,
                                     !.manifest = run[p].stdin])
  /\ UNCHANGED fs

\* manifest = json.load(sys.stdin)
LoadManifest(p) ==
  /\ run[p].pc = "load"
  /\ Set(p, IF run[p].stdin = Invalid
            THEN Die([run[p] EXCEPT !.read = TRUE], "manifest")
            ELSE [run[p] EXCEPT !.pc = "mkdtemp", !.read = TRUE,
                                !.manifest = run[p].stdin])
  /\ UNCHANGED <<fs, tmpDirs>>

\* A fixed scratch directory name.
Mkdtemp_fixed(p) ==
  /\ run[p].pc = "mkdtemp"
  /\ tmpDirs' = tmpDirs \cup {"t1"}
  /\ Set(p, [run[p] EXCEPT !.pc = "interp", !.tmp = "t1"])
  /\ UNCHANGED fs

\* tempfile.mkdtemp(): creates a directory under a name not in use, or
\* raises (no usable temporary directory); the call is outside the try.
Mkdtemp(p) ==
  /\ run[p].pc = "mkdtemp"
  /\ \/ \E name \in TmpNames \ tmpDirs :
          /\ tmpDirs' = tmpDirs \cup {name}
          /\ Set(p, [run[p] EXCEPT !.pc = "interp", !.tmp = name])
     \/ /\ tmpDirs' = tmpDirs
        /\ Set(p, Die(run[p], "mkdtemp"))
  /\ UNCHANGED fs

\* A failed introspection is tried a second time.
Interpreter_retry(p) ==
  /\ run[p].pc = "interp"
  /\ \E ok \in BOOLEAN :
       LET r == [run[p] EXCEPT !.interpTries = @ + 1]
       IN Set(p, IF ok THEN [r EXCEPT !.pc = "builder"]
                 ELSE IF run[p].interpTries = 0 THEN r
                 ELSE Raise(r, "interp"))
  /\ UNCHANGED <<fs, tmpDirs>>

\* PythonInterpreter(options.python, from_binary(options.python).identity)
Interpreter(p) ==
  /\ run[p].pc = "interp"
  /\ \E ok \in BOOLEAN :
       LET r == [run[p] EXCEPT !.interpTries = @ + 1]
       IN Set(p, IF ok THEN [r EXCEPT !.pc = "builder"] ELSE Raise(r, "interp"))
  /\ UNCHANGED <<fs, tmpDirs>>

\* The entry point is never handed to the builder.
MakeBuilder_noentry(p) ==
  /\ run[p].pc = "builder"
  /\ Set(p, [run[p] EXCEPT !.pc = "modules", !.builder = TRUE,
                           !.info = [zip_safe |-> TRUE, entry_point |-> "None"]])
  /\ UNCHANGED <<fs, tmpDirs>>

\* PEXBuilder(path=tmp_dir, ...), which may raise; then info.zip_safe =
\* True and info.entry_point = options.entry_point
MakeBuilder(p) ==
  /\ run[p].pc = "builder"
  /\ \E ok \in BOOLEAN :
       Set(p, IF ok
              THEN [run[p] EXCEPT
                      !.pc = "modules", !.builder = TRUE,
                      !.info = [zip_safe |-> TRUE,
                                entry_point |-> run[p].options.entry_point]]
              ELSE Raise(run[p], "builder"))
  /\ UNCHANGED <<fs, tmpDirs>>

\* Taking the entry e out of the items left in a loop.
Take(r, it, cat, items, e) ==
  [r EXCEPT !.pc = "deref", !.iter = it, !.cat = cat, !.todo = items \ {e},
            !.steps = 0, !.unicode = TRUE,
            !.cur = [dst |-> e.dst, src |-> e.src, path |-> e.src]]

\* The loop over the resources is skipped.
NextModule_skip(p) ==
  /\ run[p].pc = "modules"
  /\ IF run[p].iter = "none" /\ ~ HasMember(run[p].manifest, "modules")
     THEN Set(p, Raise(run[p], "shape"))
     ELSE LET items == IF run[p].iter = "none" THEN run[p].manifest.modules
                       ELSE run[p].todo
          IN IF items = {}
             THEN Set(p, [run[p] EXCEPT !.pc = "build", !.todo = {}])
             ELSE \E e \in items :
                    Set(p, Take(run[p], "modules", "module", items, e))
  /\ UNCHANGED <<fs, tmpDirs>>

\* for dst, src in manifest['modules'].iteritems(): the first time round
\* manifest['modules'].iteritems() is evaluated and raises when the document
\* has no object there; the items come in any order.
NextModule(p) ==
  /\ run[p].pc = "modules"
  /\ IF run[p].iter = "none" /\ ~ HasMember(run[p].manifest, "modules")
     THEN Set(p, Raise(run[p], "shape"))
     ELSE LET items == IF run[p].iter = "none" THEN run[p].manifest.modules
                       ELSE run[p].todo
          IN IF items = {}
             THEN Set(p, [run[p] EXCEPT !.pc = "resources", !.todo = {}])
             ELSE \E e \in items :
                    Set(p, Take(run[p], "modules", "module", items, e))
  /\ UNCHANGED <<fs, tmpDirs>>

\* for dst, src in manifest['resources'].iteritems(): as above
NextResource(p) ==
  /\ run[p].pc = "resources"
  /\ IF run[p].iter # "resources" /\ ~ HasMember(run[p].manifest, "resources")
     THEN Set(p, Raise(run[p], "shape"))
     ELSE LET items == IF run[p].iter # "resources"
                       THEN run[p].manifest.resources
                       ELSE run[p].todo
          IN IF items = {}
             THEN Set(p, [run[p] EXCEPT !.pc = "build", !.todo = {}])
             ELSE \E e \in items :
                    Set(p, Take(run[p], "resources", "resource", items, e))
  /\ UNCHANGED <<fs, tmpDirs>>

\* dereference_symlinks as a function: the path the loop returns, or Hang
\* when the loop comes back to a path it had before and so never ends, or
\* Raised when islink or os.path.join raises, or Beyond when the path grows
\* past MaxPath components, where the loop is not followed further.
Hang == Rel(<<"!">>)
Raised == Rel(<<"!!">>)
Beyond == Rel(<<"!!!">>)
RECURSIVE ResolveFrom(_, _, _)
ResolveFrom(path, uni, seen) ==
  IF Len(path.c) > MaxPath THEN Beyond
  ELSE IF ~ islink(path) THEN path
  ELSE IF <<path, uni>> \in seen THEN Hang
  ELSE IF JoinRaises(uni, readlink(path)) THEN Raised
  ELSE ResolveFrom(join(dirname(path), readlink(path)),
                   ReadsUnicode(uni, readlink(path)),
                   seen \cup {<<path, uni>>})
dereference_symlinks(src) ==
  IF Encodable(src) THEN ResolveFrom(src, TRUE, {}) ELSE Raised

\* while os.path.islink(src): the condition holds, enter the body
DerefTest(p) ==
  /\ run[p].pc = "deref"
  /\ Encodable(run[p].cur.path)
  /\ islink(run[p].cur.path)
  /\ Set(p, [run[p] EXCEPT !.pc = "relink"])
  /\ UNCHANGED <<fs, tmpDirs>>

\* The loop body: src = join(dirname(src), readlink(src)), then back to
\* the condition; an exception of os.path.join leaves dereference_symlinks
\* and the try block of main.  The counter of replacements saturates at
\* MaxSteps, and the loop is followed while the path has no more than
\* MaxPath components.
DerefStep(p) ==
  /\ run[p].pc = "relink"
  /\ LET t == readlink(run[p].cur.path)
         new == join(dirname(run[p].cur.path), t)
     IN /\ ~ JoinRaises(run[p].unicode, t) => Len(new.c) <= MaxPath
        /\ IF JoinRaises(run[p].unicode, t)
           THEN Set(p, Raise(run[p], "resolve"))
           ELSE Set(p, [run[p] EXCEPT
                    !.pc = "deref",
                    !.cur.path = new,
                    !.unicode = ReadsUnicode(@, t),
                    !.steps = IF @ < MaxSteps THEN @ + 1 ELSE @])
  /\ UNCHANGED <<fs, tmpDirs>>

\* while os.path.islink(src): islink raises and the exception leaves
\* dereference_symlinks and the try block of main
DerefRaise(p) ==
  /\ run[p].pc = "deref"
  /\ ~ Encodable(run[p].cur.path)
  /\ Set(p, Raise(run[p], "resolve"))
  /\ UNCHANGED <<fs, tmpDirs>>

\* The loop may be left while its condition still holds.
DerefReturn_any(p) ==
  /\ run[p].pc = "deref"
  /\ Set(p, [run[p] EXCEPT !.pc = "add"])
  /\ UNCHANGED <<fs, tmpDirs>>

\* The loop condition is false: return src
DerefReturn(p) ==
  /\ run[p].pc = "deref"
  /\ Encodable(run[p].cur.path)
  /\ ~ islink(run[p].cur.path)
  /\ Set(p, [run[p] EXCEPT !.pc = "add"])
  /\ UNCHANGED <<fs, tmpDirs>>

\* pex_builder.add_source / add_resource (resolved source, dst): the
\* destination and the resolved source are handed over as they are; the
\* call registers the entry or raises.
AddEntry(p) ==
  /\ run[p].pc = "add"
  /\ \E io \in BOOLEAN :
       LET new == [cat |-> run[p].cat, dst |-> run[p].cur.dst,
                   src |-> run[p].cur.path]
       IN Set(p, IF io
                 THEN [run[p] EXCEPT
                         !.pc = IF run[p].cat = "module" THEN "modules"
                                ELSE "resources",
                         !.registered = @ \cup {new},
                         !.log = Append(@, new)]
                 ELSE Raise(run[p], "register"))
  /\ UNCHANGED <<fs, tmpDirs>>

\* The builder seals the archive in the workspace and moves it into place
\* at the end: a file appears at the output path only when sealing succeeds.
BuildWrites(ok) == ok

\* pex_builder.build(output)
Build(p) ==
  /\ run[p].pc = "build"
  /\ \E ok \in BOOLEAN :
       LET r == [run[p] EXCEPT !.buildCalls = @ + 1, !.output = BuildWrites(ok)]
       IN Set(p, IF ok THEN [r EXCEPT !.pc = "finally"] ELSE Raise(r, "build"))
  /\ UNCHANGED <<fs, tmpDirs>>

\* shutil.rmtree(d, True): removes d, or fails and reports nothing
Rmtree(dirs, d, ok) == IF ok THEN dirs \ {d} ELSE dirs

\* rmtree without ignore_errors: its failure replaces the pending outcome.
AfterCleanup_raise(err, ok) == IF ok THEN err ELSE "cleanup"

\* The pending outcome after the finally clause ran
AfterCleanup(err, ok) == err

\* finally: shutil.rmtree(tmp_dir, True); then main returns or the pending
\* exception goes on to the top level and sys.exit ends the process.
Cleanup(p) ==
  /\ run[p].pc = "finally"
  /\ \E ok \in BOOLEAN :
       /\ tmpDirs' = Rmtree(tmpDirs, run[p].tmp, ok)
       /\ Set(p, [run[p] EXCEPT !.pc = "exit", !.rmTried = TRUE, !.rmOk = ok,
                                !.err = AfterCleanup(run[p].err, ok),
                                !.status = ExitStatus(AfterCleanup(run[p].err, ok))])
  /\ UNCHANGED fs

Step(p) ==
  \/ ParseArgs(p)
  \/ LoadManifest(p)
  \/ Mkdtemp(p)
  \/ Interpreter(p)
  \/ MakeBuilder(p)
  \/ NextModule(p)
  \/ NextResource(p)
  \/ DerefTest(p)
  \/ DerefStep(p)
  \/ DerefReturn(p)
  \/ DerefRaise(p)
  \/ AddEntry(p)
  \/ Build(p)
  \/ Cleanup(p)

Next == \E p \in Procs : Step(p)

\* One invocation, any filesystem shape of Layouts, any command line and
\* any standard input.
Init ==
  /\ fs \in Layouts
  /\ tmpDirs = {}
  /\ \E n \in 0..2 : \E f \in OptFlags : \E ep \in EntryPoints :
     \E in \in Stdins :
       run = [p \in Procs |->
                IF p = 1 THEN [NewRun(n, ep, in) EXCEPT !.flag = f] ELSE Off]

Spec == Init /\ [][Next]_vars

\* Two invocations side by side on one filesystem, each with its own
\* command line and standard input.
ConcManifest ==
  [modules |-> {[dst |-> Rel(<<"m">>), src |-> Rel(<<"a">>)]},
   resources |-> {[dst |-> Rel(<<"..", "x">>), src |-> Rel(<<"d", "f">>)]}]
ConcRefused ==
  [modules |-> {[dst |-> Rel(<<"m">>), src |-> Rel(<<Unencodable>>)]},
   resources |-> {}]
ConcInit ==
  /\ fs = FsChain
  /\ tmpDirs = {}
  /\ \E n \in [Procs -> 0..1] :
     \E in \in [Procs -> {ConcManifest, ConcRefused, Invalid}] :
       run = [p \in Procs |-> NewRun(n[p], NoOption, in[p])]

ConcSpec == ConcInit /\ [][Next]_vars

\* dereference_symlinks(src) on its own: any filesystem shape of
\* AllLayouts and any source path of AllSrcs.
ResolveInit ==
  /\ fs \in AllLayouts
  /\ tmpDirs = {}
  /\ \E src \in AllSrcs :
       run = [p \in Procs |->
                IF p = 1
                THEN [NewRun(1, NoOption, EmptyManifest) EXCEPT
                        !.pc = "deref",
                        !.cur = [dst |-> Rel(<<"m">>), src |-> src, path |-> src]]
                ELSE Off]

ResolveNext ==
  DerefTest(1) \/ DerefStep(1) \/ DerefReturn(1) \/ DerefRaise(1)

ResolveSpec == ResolveInit /\ [][ResolveNext]_vars

\* The loop keeps running while its condition holds.
FairResolveSpec == ResolveSpec /\ WF_vars(ResolveNext)

\* ------------------------------------------------------------------------
\* Properties
\* ------------------------------------------------------------------------
Exited(p) == run[p].pc = "exit"

\* C1: a run that exits after its scratch workspace was created has tried
\* to remove the workspace, and when the removal succeeded the scratch
\* directory does not exist at exit.
C1_CleanupOnEveryExit ==
  \A p \in Procs :
    (Exited(p) /\ run[p].tmp # "none") =>
      /\ run[p].rmTried
      /\ run[p].rmOk => run[p].tmp \notin tmpDirs

\* A failed registration after which the workspace was removed.
C1_Witness ==
  \E p \in Procs :
    /\ Exited(p) /\ run[p].err = "register" /\ run[p].tmp # "none"
    /\ run[p].rmTried /\ run[p].rmOk /\ run[p].tmp \notin tmpDirs

\* lstat finds nothing at the path.
Missing(path) ==
  Encodable(path) /\ (Lstat(path) = Fail \/ NodeAt(Lstat(path)).k = "none")

\* C2: when the entry a run ended on has a source path that does
\* not exist, the run failed with a path-resolution error, build(output)
\* was not invoked and no file was created at the output path; and no
\* failed run leaves an archive at the output path.
C2_FailsWithResolutionError ==
  \A p \in Procs :
    Exited(p) =>
      /\ (run[p].cur # NoEntry /\ Missing(run[p].cur.src)) =>
            /\ run[p].err = "resolve"
            /\ run[p].buildCalls = 0
            /\ ~ run[p].output
      /\ run[p].status # 0 => ~ run[p].output

\* What a run that ended while parsing its command line has not done.
NoSideEffects(p) ==
  /\ ~ run[p].read
  /\ run[p].tmp = "none"
  /\ tmpDirs = {}
  /\ run[p].interpTries = 0
  /\ ~ run[p].builder
  /\ ~ run[p].output

\* C3 amended: with zero or several positional arguments the run ends
\* while parsing the command line, without having read the manifest, made
\* a scratch workspace, introspected the interpreter or created an output
\* file; it reports a usage error and exits non-zero, unless optparse acts
\* on --help, which prints the help text and exits with status 0.
C3_NoSideEffectsUsageUnlessHelp ==
  \A p \in Procs :
    (run[p].pc # "start" /\ run[p].pc # "off" /\ run[p].nargs # 1) =>
      /\ Exited(p)
      /\ NoSideEffects(p)
      /\ IF run[p].flag = "help"
         THEN run[p].err = "help" /\ run[p].status = 0
         ELSE run[p].err = "usage" /\ run[p].status # 0

\* C3 as stated: with zero or several positional arguments the run
\* reports a usage error and exits non-zero; it has not read the manifest,
\* made a scratch workspace, introspected the interpreter or created an
\* output file.
C3_UsageErrorNoSideEffects ==
  \A p \in Procs :
    (run[p].pc # "start" /\ run[p].pc # "off" /\ run[p].nargs # 1) =>
      /\ Exited(p)
      /\ run[p].err = "usage"
      /\ run[p].status # 0
      /\ ~ run[p].read
      /\ run[p].tmp = "none"
      /\ tmpDirs = {}
      /\ run[p].interpTries = 0
      /\ ~ run[p].builder
      /\ ~ run[p].output

\* A run with two positional arguments that has exited.
C3_Witness ==
  \E p \in Procs :
    Exited(p) /\ run[p].nargs = 2 /\ run[p].err = "usage" /\ run[p].status = 2

InResolve(p) == run[p].pc \in {"deref", "relink"}

\* The next replacement would give a path of more than MaxPath components.
Capped(p) ==
  /\ run[p].pc = "relink"
  /\ ~ JoinRaises(run[p].unicode, readlink(run[p].cur.path))
  /\ Len(join(dirname(run[p].cur.path), readlink(run[p].cur.path)).c) > MaxPath

\* C4: every call of resolve terminates, whatever the links are: a call
\* that has started returns (or fails) after finitely many steps, as far
\* as the loop is followed.
C4_ResolveTerminates ==
  \A p \in Procs : InResolve(p) ~> (~ InResolve(p) \/ Capped(p))

\* The chain of links as the filesystem has it: the place a link's target
\* names, looked up from the directory that holds the link.
TargetLoc(loc) ==
  LET t == NodeAt(loc).t
  IN Walk(IF t.abs THEN Root ELSE Parent(loc), t.c, SYMLOOP_MAX)

IsLinkAt(loc) == loc # Fail /\ NodeAt(loc).k = "link"

\* More hops than there are nodes means the chain is cyclic.
ChainFuel == Cardinality(Locs) + 1

\* Number of links from loc to the first place that is not a link; -1 when
\* the chain never leaves links.
RECURSIVE ChainDepth(_, _)
ChainDepth(loc, fuel) ==
  IF ~ IsLinkAt(loc) THEN 0
  ELSE IF fuel = 0 THEN -1
  ELSE LET d == ChainDepth(TargetLoc(loc), fuel - 1)
       IN IF d = -1 THEN -1 ELSE d + 1

\* The first place on the chain from loc that is not a link.
RECURSIVE ChainEnd(_, _)
ChainEnd(loc, fuel) ==
  IF ~ IsLinkAt(loc) \/ fuel = 0 THEN loc
  ELSE ChainEnd(TargetLoc(loc), fuel - 1)

\* src is a path whose final component starts an acyclic chain of links.
Acyclic(src) == Encodable(src) /\ ChainDepth(Lstat(src), ChainFuel) # -1

\* As far as resolve has come on an acyclic chain of N links, it has made
\* no more than N replacements, and when it returns it has made exactly N
\* and the path it returns names the place at the end of the chain.
FollowsChain(p) ==
  run[p].pc \in {"deref", "relink", "add"} =>
    LET src == run[p].cur.src
        n == ChainDepth(Lstat(src), ChainFuel)
    IN Acyclic(src) =>
         /\ run[p].steps <= n
         /\ run[p].pc = "add" =>
               /\ run[p].steps = n
               /\ ~ islink(run[p].cur.path)
               /\ Lstat(run[p].cur.path) = ChainEnd(Lstat(src), ChainFuel)
               /\ n = 0 => run[p].cur.path = src

\* C5: when the final component of src starts an acyclic chain of N links,
\* resolve never makes more than N replacements, returns after exactly N
\* without raising, and the path it returns names the place at the end of
\* the chain, which is not a link; with N = 0 it returns src as given.
C5_ResolveFollowsChain ==
  \A p \in Procs :
    /\ FollowsChain(p)
    /\ (run[p].pc # "off" /\ Acyclic(run[p].cur.src)) => run[p].err = "none"

\* C6 amended: a run exits with status 0 exactly when build(output) was
\* invoked and succeeded or when optparse acted on --help; a run that
\* ends on any error exits with a status that is not 0, and an output file
\* exists exactly when no error occurred and the run was not a --help run.
C6_ZeroIffBuiltOrHelp ==
  \A p \in Procs :
    Exited(p) =>
      /\ run[p].status = 0 <=>
           ((run[p].buildCalls = 1 /\ run[p].output) \/ run[p].err = "help")
      /\ run[p].err \notin {"none", "help"} => run[p].status # 0
      /\ run[p].err = "help" => (run[p].flag = "help" /\ NoSideEffects(p))
      /\ run[p].err = "none" <=> run[p].output

\* C6 as stated: a run exits with status 0 exactly when build(output) was
\* invoked and succeeded; a run that ends on any error exits with a status
\* that is not 0.
C6_ZeroIffBuilt ==
  \A p \in Procs :
    Exited(p) =>
      /\ run[p].status = 0 <=> (run[p].buildCalls = 1 /\ run[p].output)
      /\ run[p].err # "none" => run[p].status # 0
      /\ run[p].err = "none" <=> run[p].output

\* A run that exited with status 1 after build(output) failed.
C6_Witness ==
  \E p \in Procs :
    /\ Exited(p) /\ run[p].err = "build" /\ run[p].buildCalls = 1
    /\ ~ run[p].output /\ run[p].status = 1

\* C7: the step that removes the workspace and ends the run leaves the
\* pending error as it was and sets the exit status from it alone, whether
\* the removal succeeds or fails.
C7_CleanupKeepsOutcome ==
  [][\A p \in Procs :
       (run[p].pc = "finally" /\ run'[p].pc = "exit") =>
         /\ run'[p].err = run[p].err
         /\ run'[p].status = IF run[p].err = "none" THEN 0 ELSE 1]_vars

\* A successful build whose workspace could not be removed.
C7_Witness ==
  \E p \in Procs :
    /\ Exited(p) /\ run[p].rmTried /\ ~ run[p].rmOk
    /\ run[p].tmp \in tmpDirs /\ run[p].err = "none" /\ run[p].status = 0

\* C8: with standard input that is not a valid document the run fails
\* and at exit no scratch workspace of it exists.
C8_BadManifestNoWorkspace ==
  \A p \in Procs :
    (Exited(p) /\ run[p].read /\ run[p].stdin = Invalid) =>
      /\ run[p].status # 0
      /\ run[p].err = "manifest"
      /\ run[p].tmp = "none" \/ run[p].tmp \notin tmpDirs
      /\ run[p].interpTries = 0 /\ run[p].buildCalls = 0 /\ ~ run[p].output

\* A run that read an invalid manifest and exited.
C8_Witness ==
  \E p \in Procs :
    /\ Exited(p) /\ run[p].read /\ run[p].stdin = Invalid
    /\ run[p].status = 1 /\ tmpDirs = {}

\* A destination escapes the workspace when it is absolute or climbs above
\* its starting directory.
RECURSIVE Climbs(_, _)
Climbs(comps, depth) ==
  IF Len(comps) = 0 THEN FALSE
  ELSE IF Head(comps) = ".." THEN depth = 0 \/ Climbs(Tail(comps), depth - 1)
  ELSE Climbs(Tail(comps), depth + 1)
Escapes(dst) == dst.abs \/ Climbs(dst.c, 0)

HasEscape(m) == \E e \in Modules(m) \cup Resources(m) : Escapes(e.dst)

\* C9: no entry is ever registered under a destination that escapes the
\* workspace; a run whose manifest holds such a destination never invokes
\* build(output), creates no output, and exits with a failure.
C9_EscapeRejected ==
  \A p \in Procs :
    /\ \A e \in run[p].registered : ~ Escapes(e.dst)
    /\ (run[p].read /\ HasEscape(run[p].manifest)) =>
          /\ run[p].buildCalls = 0
          /\ ~ run[p].output
          /\ run[p].pc # "build"
          /\ Exited(p) => run[p].status # 0

\* An invocation that holds a scratch workspace.
Live(p) ==
  run[p].pc \in {"interp", "builder", "modules", "resources", "deref",
                 "relink", "add", "build", "finally"}

\* C10: invocations that hold a workspace at the same time hold different
\* ones, and the workspace of an invocation exists for as long as that
\* invocation holds it, whatever the other invocations do.
C10_PrivateWorkspaces ==
  \A p \in Procs :
    Live(p) =>
      /\ run[p].tmp \in tmpDirs
      /\ \A q \in Procs \ {p} : Live(q) => run[q].tmp # run[p].tmp

\* One invocation has removed its workspace and exited while the other
\* still holds its own.
C10_Witness ==
  \E p \in Procs : \E q \in Procs \ {p} :
    /\ Exited(p) /\ run[p].rmTried /\ run[p].rmOk
    /\ Live(q) /\ run[q].tmp \in tmpDirs /\ run[q].tmp # run[p].tmp

SharedDst(m) ==
  \E e1 \in Modules(m) : \E e2 \in Resources(m) : e1.dst = e2.dst

\* C11: a run whose manifest has one destination both in modules and in
\* resources never invokes build(output), creates no output and exits with
\* a failure; no two registered entries ever share a destination, so every
\* destination of a produced archive belongs to exactly one entry.
C11_CollisionIsBuildError ==
  \A p \in Procs :
    /\ \A e1 \in run[p].registered : \A e2 \in run[p].registered :
          e1.dst = e2.dst => e1 = e2
    /\ (run[p].read /\ SharedDst(run[p].manifest)) =>
          /\ run[p].buildCalls = 0
          /\ ~ run[p].output
          /\ run[p].pc # "build"
          /\ Exited(p) => run[p].status # 0

\* Number of registrations in the log under a category and a destination.
Registrations(lg, cat, dst) ==
  Cardinality({i \in 1..Len(lg) : lg[i].cat = cat /\ lg[i].dst = dst})

\* C12: build(output) is invoked at most once; from the moment the run
\* reaches it, every module and every resource of the manifest has been
\* registered exactly once, under its category and destination and with
\* its resolved source, and the registrations are those and no others,
\* also in every later state.
C12_BuildOnceAfterAll ==
  \A p \in Procs :
    /\ run[p].buildCalls <= 1
    /\ (run[p].pc = "build" \/ run[p].buildCalls >= 1) =>
          LET m == run[p].manifest
              lg == run[p].log
          IN /\ Len(lg) = Cardinality(Modules(m)) + Cardinality(Resources(m))
             /\ \A e \in Modules(m) :
                  /\ Registrations(lg, "module", e.dst) = 1
                  /\ [cat |-> "module", dst |-> e.dst,
                      src |-> dereference_symlinks(e.src)] \in run[p].registered
             /\ \A e \in Resources(m) :
                  /\ Registrations(lg, "resource", e.dst) = 1
                  /\ [cat |-> "resource", dst |-> e.dst,
                      src |-> dereference_symlinks(e.src)] \in run[p].registered
             /\ Cardinality(run[p].registered) = Len(lg)

\* A run that has exited after build(output) was invoked on a module and
\* a resource, one of them resolved through links.
C12_Witness ==
  \E p \in Procs :
    /\ Exited(p) /\ run[p].buildCalls = 1 /\ Len(run[p].log) = 2
    /\ Cardinality(Modules(run[p].manifest)) = 1
    /\ Cardinality(Resources(run[p].manifest)) = 1
    /\ \E e \in Modules(run[p].manifest) \cup Resources(run[p].manifest) :
         dereference_symlinks(e.src) # e.src

\* The run has started to register entries.
Registering(p) ==
  \/ run[p].pc \in {"modules", "resources", "deref", "relink", "add", "build"}
  \/ run[p].cur # NoEntry
  \/ run[p].log # <<>>
  \/ run[p].buildCalls >= 1

\* C13: from the moment the first entry is taken up, through build(output)
\* and until the run ends, zip-safe is true and the entry point is the
\* value of --entry-point, '__main__' when the option is absent.
C13_InfoSetBeforeEntries ==
  \A p \in Procs :
    Registering(p) =>
      /\ run[p].info.zip_safe = TRUE
      /\ run[p].info.entry_point =
           (IF run[p].entry_point = NoOption THEN "__main__"
            ELSE run[p].entry_point.value)

\* build(output) is about to be invoked on registered entries in a run
\* without --entry-point.
C13_Witness ==
  \E p \in Procs :
    /\ run[p].pc = "build" /\ run[p].log # <<>>
    /\ run[p].entry_point = NoOption
    /\ run[p].info = [zip_safe |-> TRUE, entry_point |-> "__main__"]

IsPrefix(a, b) == Len(a) <= Len(b) /\ SubSeq(b, 1, Len(a)) = a

\* C14 as stated: every replacement keeps the directory part of the
\* current path as written and changes the last component only.
C14_DirectoryKeptAsWritten ==
  [][\A p \in Procs :
       (run[p].pc = "relink" /\ run'[p].pc = "deref") =>
         LET old == run[p].cur.path
             new == run'[p].cur.path
         IN /\ new.abs = old.abs
            /\ IsPrefix(dirname(old).c, new.c)]_vars

\* C14 amended: for a source the system calls accept, a replacement is
\* made only while the final component is a link, and it puts the link's
\* target in the place of the final component:
\* behind the directory part as written when the target is relative, as
\* the whole path when the target is absolute; a directory component that
\* is a link is never exchanged for its own target; and resolve returns
\* the current path as soon as its final component is not a link.
C14_OnlyFinalComponent ==
  [][\A p \in Procs :
       LET old == run[p].cur.path
           new == run'[p].cur.path
           t == NodeAt(Lstat(old)).t
       IN /\ (run[p].pc = "deref" /\ run'[p].pc = "relink") =>
               IsLinkAt(Lstat(old)) /\ new = old
          /\ (run[p].pc = "relink" /\ run'[p].pc = "deref") =>
               IF t.abs THEN new = t
               ELSE /\ new.abs = old.abs
                    /\ new.c = SubSeq(old.c, 1, Len(old.c) - 1) \o t.c
          /\ (run[p].pc = "deref" /\ Encodable(old) /\ ~ IsLinkAt(Lstat(old))) =>
               run'[p].pc = "add" /\ new = old]_vars

\* resolve returned a path whose first component is still the link s to
\* the directory d, after replacing the final component.
C14_Witness ==
  \E p \in Procs :
    /\ run[p].pc = "add" /\ run[p].steps >= 1
    /\ run[p].cur.path.c[1] = "s" /\ Len(run[p].cur.path.c) >= 2
    /\ NodeAt(<<"s">>).k = "link"

\* The entries a manifest asks for, with their sources resolved.
Expected(m) ==
  {[cat |-> "module", dst |-> e.dst, src |-> dereference_symlinks(e.src)] :
     e \in Modules(m)}
  \cup
  {[cat |-> "resource", dst |-> e.dst, src |-> dereference_symlinks(e.src)] :
     e \in Resources(m)}

\* C15: for a manifest with unique destinations the order of iteration
\* does not matter.  On success the entries handed to build(output) are
\* those the manifest asks for; and when a run has ended on an entry the
\* builder or resolve refuses, the run would have ended in any other order
\* too: no entry still waiting in the same collection keeps resolve from
\* returning.
C15_OrderIrrelevant ==
  \A p \in Procs :
    ~ SharedDst(run[p].manifest) =>
      /\ (run[p].pc = "build" \/ run[p].buildCalls >= 1) =>
            run[p].registered = Expected(run[p].manifest)
      /\ (Exited(p) /\ run[p].err \in {"resolve", "register"}) =>
            \A e \in run[p].todo : dereference_symlinks(e.src) # Hang

\* What a run that ended on a failed introspection has not done.
NothingBuilt(p) ==
  /\ run[p].status # 0
  /\ run[p].interpTries = 1
  /\ ~ run[p].builder
  /\ run[p].info = NoInfo
  /\ run[p].registered = {} /\ run[p].log = <<>> /\ run[p].cur = NoEntry
  /\ run[p].buildCalls = 0 /\ ~ run[p].output

\* C16 as stated: a run that ended on a failed introspection made one
\* attempt, created no builder, registered nothing, never invoked
\* build(output), and its scratch workspace is removed.
C16_InterpFailureWorkspaceRemoved ==
  \A p \in Procs :
    (Exited(p) /\ run[p].err = "interp") =>
      /\ NothingBuilt(p)
      /\ run[p].tmp \notin tmpDirs

\* C16 amended: a run that ended on a failed introspection made one
\* attempt, created no builder, registered nothing, never invoked
\* build(output), and tried to remove its scratch workspace, which is gone
\* when that removal succeeded; no run introspects more than once.
C16_InterpFailureCleanupTried ==
  \A p \in Procs :
    /\ run[p].interpTries <= 1
    /\ (Exited(p) /\ run[p].err = "interp") =>
          /\ NothingBuilt(p)
          /\ run[p].tmp # "none"
          /\ run[p].rmTried
          /\ run[p].rmOk => run[p].tmp \notin tmpDirs

\* A run that ended on a failed introspection and removed its workspace.
C16_Witness ==
  \E p \in Procs :
    /\ Exited(p) /\ run[p].err = "interp" /\ run[p].status = 1
    /\ run[p].rmTried /\ run[p].rmOk /\ tmpDirs = {}

\* C17: the path q that resolve returns does not end in a symbolic link
\* (os.path.islink(q) is false), and resolve applied to q returns q.
C17_ResolveIdempotent ==
  \A p \in Procs :
    run[p].pc = "add" =>
      LET q == run[p].cur.path
      IN /\ ~ IsLinkAt(Lstat(q))
         /\ dereference_symlinks(q) = q
         /\ q = dereference_symlinks(run[p].cur.src)

\* resolve returned, after two or more replacements, a path other than
\* the one it was given.
C17_Witness ==
  \E p \in Procs :
    /\ run[p].pc = "add" /\ run[p].steps >= 2
    /\ run[p].cur.path # run[p].cur.src
    /\ dereference_symlinks(run[p].cur.path) = run[p].cur.path

====
